---- MODULE Spec2Model ----
(***************************************************************************)
(* Model of the go-automapper registry (mapper.go, mapper_automap.go):     *)
(* a registry keyed by a pair of reflected types, the operations that      *)
(* write it (Register, RegisterAutoMap, Remove) and the operations that    *)
(* read it (Has, Map, MapSlice, List).                                     *)
(*                                                                         *)
(* Types are records [kind, base, ptr]: kind "val" is the base type under  *)
(* ptr pointer layers, kind "slice" is a slice whose element is the base   *)
(* type under ptr pointer layers.  Values are records [nil, lv, v, elems]: *)
(* a scalar is a chain of lv non-nil pointers that ends in a nil pointer   *)
(* (nil = TRUE) or in the base value v; a slice is nil or holds elems.     *)
(* Kind "iface" is an interface type and kind "struct" a struct, whose     *)
(* value holds one base value for each field in elems.                     *)
(*                                                                         *)
(* Spec is one caller of the registry operations; SpecList adds List and   *)
(* the slices it returns, SpecMappers several Mapper values, SpecConc      *)
(* goroutines that share one Mapper, SpecAuto automatic mappings between   *)
(* struct types, SpecUnsafe the calls of MapUnsafe and MapSliceUnsafe.      *)
(***************************************************************************)
EXTENDS Integers, Sequences, FiniteSets, TLC

VARIABLES registry, hist, last, arrays, held, maps, mappers, procs, fatal

\* registry: the map of the Mapper m; hist, last: the calls made on it;
\* arrays: the backing arrays of the slices List has allocated, by address;
\* held: the slices List has returned to the caller, in the order of the calls;
\* maps: the registry maps that New has made, by address; mappers: the
\* Mapper values that New has returned, Global first; procs: the goroutines
\* that share m, each idle or inside an access to m.registry; fatal: the
\* runtime has stopped the program ("concurrent map writes")
aux == <<arrays, held, maps, mappers, procs, fatal>>

vars == <<registry, hist, last, aux>>

\* ------------------------------------------------------------------ bounds
MaxPtr == 1
MaxVal == 1
MaxLen == 2
MaxLists == 2
MaxMappers == 2
MaxProcs == 2

\* ------------------------------------------------------------------- types
Bases == {"string", "int"}

Ty(k, b, p) == [kind |-> k, base |-> b, ptr |-> p]

ValTypes == {Ty("val", b, p) : b \in Bases, p \in 0..MaxPtr}

SliceTypes == {Ty("slice", b, p) : b \in Bases, p \in 0..MaxPtr}

NoType == Ty("none", "", 0)

\* reflect.Type.Kind()
Kind(t) == IF t.kind = "slice" THEN "slice" ELSE IF t.ptr > 0 THEN "ptr" ELSE t.base

\* reflect.Type.Elem() of a pointer or slice type
Elem(t) == IF t.kind = "slice" THEN Ty("val", t.base, t.ptr) ELSE Ty("val", t.base, t.ptr - 1)

\* the type *t (reflect.New(t).Type(), or *S in a type switch)
PtrTo(t) == Ty("val", t.base, t.ptr + 1)

typePair(s, d) == [src |-> s, dst |-> d]

\* the struct types RegisterAutoMap is used with, and their field names in
\* declaration order: Foo and Bar are structurally identical, Dest has a
\* field that Source lacks
Fields(t) ==
    CASE t.base \in {"Foo", "Bar"} -> <<"X", "Y">>
      [] t.base = "Source" -> <<"Name", "Age", "Email">>
      [] t.base = "Dest" -> <<"Name", "Age", "City">>
      [] OTHER -> <<>>

StructType(name) == Ty("struct", name, 0)

\* ------------------------------------------------------------------ values
Vals == 0..MaxVal

Val(n, l, x, es) == [nil |-> n, lv |-> l, v |-> x, elems |-> es]

NoVal == Val(TRUE, 0, 0, <<>>)

\* var dst D: the zero value of a type (nil pointer, nil slice, nil interface, 0 or "")
Zero(t) ==
    IF t.kind \in {"slice", "iface"} \/ t.ptr > 0 THEN Val(TRUE, 0, 0, <<>>)
    ELSE IF t.kind = "struct" THEN Val(FALSE, 0, 0, [i \in DOMAIN Fields(t) |-> 0])
    ELSE Val(FALSE, 0, 0, <<>>)

\* the values of a scalar type: the base values behind t.ptr pointers, and a nil at any layer
ValuesOf(t) ==
    {Val(FALSE, t.ptr, x, <<>>) : x \in Vals} \cup {Val(TRUE, k, 0, <<>>) : k \in 0..(t.ptr - 1)}

SeqsUpTo(S, n) == UNION {[1..k -> S] : k \in 0..n}

\* the values of a struct type: a base value in every field
StructValues(t) == {Val(FALSE, 0, 0, es) : es \in [DOMAIN Fields(t) -> Vals]}

\* the values of a slice type: the nil slice and the slices of at most MaxLen elements
SlicesOf(t) ==
    {Val(TRUE, 0, 0, <<>>)} \cup {Val(FALSE, 0, 0, es) : es \in SeqsUpTo(ValuesOf(Elem(t)), MaxLen)}

\* the values of an interface type: the nil interface, and a string boxed in it
IfaceValues == {Val(TRUE, 0, 0, <<>>)} \cup {Val(FALSE, 0, x, <<>>) : x \in Vals}

InputsOf(t) ==
    IF t.kind = "slice" THEN SlicesOf(t) ELSE IF t.kind = "iface" THEN IfaceValues ELSE ValuesOf(t)

\* reflect.TypeOf(v) for v declared of type t: the type itself, or for an
\* interface the type of the value boxed in it, and nil for a nil interface
TypeOf(t, v) ==
    IF t.kind # "iface" THEN t ELSE IF v.nil THEN NoType ELSE Ty("val", "string", 0)

\* *p and &v on scalar values
Deref(a) == [a EXCEPT !.lv = @ - 1]

AddrOf(a) == [a EXCEPT !.lv = @ + 1]

\* reflect.Value.IsNil() of a pointer value
IsNil(a) == a.nil /\ a.lv = 0

\* --------------------------------------------------- registered functions
\* The functions callers register: "f" and "g" are two hand-written
\* conversions that differ on every input, "auto" is autoMap[S, D].
UserFns == {"f", "g"}

BaseFn(id, x) == CASE id = "f" -> x + 1 [] id = "g" -> x + 2 [] OTHER -> x

\* copier.Copy(dstPtr, srcPtr) on structs: every field of the destination
\* that has a field of the same name in the source takes its value, the
\* other fields keep their zero value
copierCopy(S, D, src) ==
    Val(FALSE, 0, 0,
        [i \in DOMAIN Fields(D) |->
            IF \E j \in DOMAIN Fields(S) : Fields(S)[j] = Fields(D)[i]
            THEN src.elems[CHOOSE j \in DOMAIN Fields(S) : Fields(S)[j] = Fields(D)[i]]
            ELSE 0])

\* AutoMap[S, D]: an assignment when S and D are one type, else copier.Copy
AutoMap(S, D, src) == IF S = D THEN src ELSE copierCopy(S, D, src)

\* a registry entry: the function value with its reflected signature func(in) out
Entry(id, s, d) == [id |-> id, in |-> s, out |-> d]

\* the function applied to an argument of its parameter type; a function
\* over pointers answers nil (its zero result) when it is handed a nil
Apply(fn, a) ==
    IF a.nil THEN Zero(fn.out)
    ELSE IF fn.id = "auto" /\ fn.in.kind = "struct" THEN AutoMap(fn.in, fn.out, a)
    ELSE Val(FALSE, fn.out.ptr, BaseFn(fn.id, a.v), <<>>)

\* one invocation of a stored function: which function, and its argument
Invocation(fn, a) == [fn |-> fn.id, in |-> fn.in, out |-> fn.out, arg |-> a]

\* -------------------------------------------------------------- the results
ErrNil == "nil"
ErrNoMapping == "ErrNoMapping"
ErrSrcAndDestMustBeSlices == "ErrSrcAndDestMustBeSlices"

Ret(val, err, calls) == [val |-> val, err |-> err, calls |-> calls, panic |-> FALSE]

Panic(calls) == [val |-> NoVal, err |-> "panic", calls |-> calls, panic |-> TRUE]

\* reflect.Value.Call: panics unless the argument has the parameter's type
Call(fn, argTy, arg, calls) ==
    IF argTy # fn.in
    THEN [ty |-> NoType, val |-> NoVal, calls |-> calls, panic |-> TRUE]
    ELSE [ty |-> fn.out, val |-> Apply(fn, arg), calls |-> Append(calls, Invocation(fn, arg)), panic |-> FALSE]

\* ------------------------------------------------------------ the registry
\* New(): a registry with no entry
New == [k \in {} |-> Entry("f", NoType, NoType)]

\* reflect.TypeOf((*S)(nil)).Elem() paired with the same for D: the key that
\* Register, RegisterAutoMap, Has and Remove compute from their type arguments
declaredKey(S, D) == typePair(S, D)

\* m.registry[key] = fn
store(m, key, fn) == [k \in (DOMAIN m) \cup {key} |-> IF k = key THEN fn ELSE m[k]]

\* a New that returns a Mapper over the map of Global
makeMapOfGlobal(ms) == 1

\* make(map[typePair]interface{}): the address of a new map
makeMap(ms) == Len(ms) + 1

\* Register that keeps the entry a key already has
RegisterKeepsFirst(m, S, D, id) ==
    IF declaredKey(S, D) \in DOMAIN m THEN m ELSE store(m, declaredKey(S, D), Entry(id, S, D))

Register(m, S, D, id) == store(m, declaredKey(S, D), Entry(id, S, D))

\* RegisterAutoMap that registers AutoMap[S, D] for the reverse direction too
RegisterAutoMapSameFunction(m, S, D) ==
    store(store(m, declaredKey(S, D), Entry("auto", S, D)), declaredKey(D, S), Entry("auto", S, D))

\* RegisterAutoMap that registers the forward direction only
RegisterAutoMapOneWay(m, S, D) == store(m, declaredKey(S, D), Entry("auto", S, D))

RegisterAutoMap(m, S, D) ==
    store(store(m, declaredKey(S, D), Entry("auto", S, D)), declaredKey(D, S), Entry("auto", D, S))

Has(m, S, D) == declaredKey(S, D) \in DOMAIN m

\* Remove that also deletes the reverse entry
RemoveBothDirections(m, S, D) ==
    [k \in (DOMAIN m) \ {declaredKey(S, D), declaredKey(D, S)} |-> m[k]]

Remove(m, S, D) == [k \in (DOMAIN m) \ {declaredKey(S, D)} |-> m[k]]

\* reflect.Type.String(): "string", "*string", "[]*int"
RECURSIVE Stars(_)
Stars(n) == IF n = 0 THEN "" ELSE "*" \o Stars(n - 1)

String(t) == (IF t.kind = "slice" THEN "[]" ELSE "") \o Stars(t.ptr) \o t.base

\* k.src.String() + "-" + k.dst.String()
Label(k) == String(k.src) \o "-" \o String(k.dst)

\* the orders in which a range over a map of these keys can visit them
Orders(keys) ==
    {o \in [1..Cardinality(keys) -> keys] : \A i, j \in DOMAIN o : o[i] = o[j] => i = j}

\* make([]string, 0, len(m.registry)) that hands out the array of the first call again
makeSliceCached(arr) == 1

\* make([]string, 0, len(m.registry)): the address of a new backing array
makeSlice(arr) == Len(arr) + 1

\* List that stops one entry short of the end of the map
ListStopsShort(m) ==
    {[i \in 1..(Cardinality(DOMAIN m) - 1) |-> Label(o[i])] : o \in Orders(DOMAIN m)}

\* List: the label of every key, in the order the range visits the map;
\* the sequences a call can return
List(m) == {[i \in DOMAIN o |-> Label(o[i])] : o \in Orders(DOMAIN m)}

\* ---------------------------------------------------------------- Map
\* a lookup key taken from the caller's types as they are
lookupKeyAsDeclared(srcType, dstType) == typePair(srcType, dstType)

\* the key Map and MapSlice look up: one pointer layer is unwrapped on each side
lookupKey(srcType, dstType) ==
    typePair(IF Kind(srcType) = "ptr" THEN Elem(srcType) ELSE srcType,
             IF Kind(dstType) = "ptr" THEN Elem(dstType) ELSE dstType)

\* *(*unsafe.Pointer)(&src) == nil, for src of a pointer type
unsafeIsNil(src) == src.nil /\ src.lv = 0

\* the type switch on the stored function: func(S) D, func(*S) D, func(S) *D
fastFunctionCall(fn, S, D, src) ==
    IF fn.in = S /\ fn.out = D
    THEN [val |-> Apply(fn, src), calls |-> <<Invocation(fn, src)>>, success |-> TRUE]
    ELSE IF fn.in = PtrTo(S) /\ fn.out = D
    THEN [val |-> Apply(fn, AddrOf(src)), calls |-> <<Invocation(fn, AddrOf(src))>>, success |-> TRUE]
    ELSE IF fn.in = S /\ fn.out = PtrTo(D)
    THEN [val |-> IF IsNil(Apply(fn, src)) THEN Zero(D) ELSE Deref(Apply(fn, src)),
          calls |-> <<Invocation(fn, src)>>, success |-> TRUE]
    ELSE [val |-> Zero(D), calls |-> <<>>, success |-> FALSE]

\* the result is a D already; with needsPointer it is wrapped into a *D, and
\* the assertion of that *D to D fails
handlePointerConversion(result, calls, needsPointer) ==
    IF ~needsPointer THEN Ret(result, ErrNil, calls) ELSE Panic(calls)

mapWithReflection(fn, src, srcType, dstType, srcIsPtr, dstIsPtr) ==
    IF srcIsPtr /\ IsNil(src)
    THEN Ret(Zero(dstType), ErrNil, <<>>)
    ELSE LET paramTy == IF srcIsPtr THEN Elem(srcType) ELSE srcType
             param   == IF srcIsPtr THEN Deref(src) ELSE src
             result  == Call(fn, paramTy, param, <<>>)
         IN  IF result.panic THEN Panic(result.calls)
             ELSE IF dstIsPtr
             THEN IF PtrTo(result.ty) = dstType
                  THEN Ret(AddrOf(result.val), ErrNil, result.calls)
                  ELSE Panic(result.calls)
             ELSE IF result.ty = dstType
                  THEN Ret(result.val, ErrNil, result.calls)
                  ELSE Panic(result.calls)

\* the steps of Map once the entry is found: the fast call, else reflection
dispatch(fn, S, D, src, srcType, dstType, srcIsPtr, dstIsPtr) ==
    LET fast == fastFunctionCall(fn, S, D, src)
    IN  IF fast.success
        THEN handlePointerConversion(fast.val, fast.calls, dstIsPtr)
        ELSE mapWithReflection(fn, src, srcType, dstType, srcIsPtr, dstIsPtr)

\* Map that answers a missing entry between equal types with the source itself
MapIdentityWhenMissing(m, S, D, src) ==
    LET dst      == Zero(D)
        srcType  == TypeOf(S, src)
        dstType  == TypeOf(D, dst)
        srcIsPtr == Kind(srcType) = "ptr"
        dstIsPtr == Kind(dstType) = "ptr"
        key      == lookupKey(srcType, dstType)
    IN  IF srcType = NoType \/ dstType = NoType
        THEN Panic(<<>>)
        ELSE IF key \notin DOMAIN m
        THEN IF S = D THEN Ret(src, ErrNil, <<>>) ELSE Ret(dst, ErrNoMapping, <<>>)
        ELSE IF srcIsPtr /\ unsafeIsNil(src)
        THEN Ret(dst, ErrNil, <<>>)
        ELSE dispatch(m[key], S, D, src, srcType, dstType, srcIsPtr, dstIsPtr)

\* Map that answers a nil source before it looks the key up
MapNilCheckFirst(m, S, D, src) ==
    LET dst      == Zero(D)
        srcType  == TypeOf(S, src)
        dstType  == TypeOf(D, dst)
        srcIsPtr == Kind(srcType) = "ptr"
        dstIsPtr == Kind(dstType) = "ptr"
        key      == lookupKey(srcType, dstType)
    IN  IF srcType = NoType \/ dstType = NoType
        THEN Panic(<<>>)
        ELSE IF srcIsPtr /\ unsafeIsNil(src)
        THEN Ret(dst, ErrNil, <<>>)
        ELSE IF key \notin DOMAIN m
        THEN Ret(dst, ErrNoMapping, <<>>)
        ELSE dispatch(m[key], S, D, src, srcType, dstType, srcIsPtr, dstIsPtr)

\* Map that hands the zero value to the stored function when the source is nil
MapCallsOnNil(m, S, D, src) ==
    LET dst      == Zero(D)
        srcType  == TypeOf(S, src)
        dstType  == TypeOf(D, dst)
        srcIsPtr == Kind(srcType) = "ptr"
        dstIsPtr == Kind(dstType) = "ptr"
        key      == lookupKey(srcType, dstType)
    IN  IF srcType = NoType \/ dstType = NoType
        THEN Panic(<<>>)
        ELSE IF key \notin DOMAIN m
        THEN Ret(dst, ErrNoMapping, <<>>)
        ELSE dispatch(m[key], S, D, IF srcIsPtr /\ unsafeIsNil(src) THEN AddrOf(Zero(Elem(S))) ELSE src,
                      srcType, dstType, srcIsPtr, dstIsPtr)

\* srcType.Kind() and dstType.Kind() are calls on a nil reflect.Type when
\* src is a nil interface or D is an interface type: a nil dereference
Map(m, S, D, src) ==
    LET dst      == Zero(D)
        srcType  == TypeOf(S, src)
        dstType  == TypeOf(D, dst)
        srcIsPtr == Kind(srcType) = "ptr"
        dstIsPtr == Kind(dstType) = "ptr"
        key      == lookupKey(srcType, dstType)
    IN  IF srcType = NoType \/ dstType = NoType
        THEN Panic(<<>>)
        ELSE IF key \notin DOMAIN m
        THEN Ret(dst, ErrNoMapping, <<>>)
        ELSE IF srcIsPtr /\ unsafeIsNil(src)
        THEN Ret(dst, ErrNil, <<>>)
        ELSE dispatch(m[key], S, D, src, srcType, dstType, srcIsPtr, dstIsPtr)

\* ------------------------------------------------------------- MapSlice
\* func(interface{}) interface{}: the signature of the first fast path
AnyType == Ty("iface", "", 0)

StringType == Ty("val", "string", 0)

IntType == Ty("val", "int", 0)

SliceOf(t) == Ty("slice", t.base, t.ptr)

\* the loop filling the destination from its last index down
RECURSIVE mapEachReversed(_, _, _)
mapEachReversed(fn, elems, acc) ==
    IF elems = <<>> THEN acc
    ELSE mapEachReversed(fn, Tail(elems),
                         [out   |-> <<Apply(fn, Head(elems))>> \o acc.out,
                          calls |-> Append(acc.calls, Invocation(fn, Head(elems)))])

\* the loop of mapStringToIntSlice and mapIntToStringSlice: dst[i] = fn(src[i])
RECURSIVE mapEach(_, _, _)
mapEach(fn, elems, acc) ==
    IF elems = <<>> THEN acc
    ELSE mapEach(fn, Tail(elems),
                 [out   |-> Append(acc.out, Apply(fn, Head(elems))),
                  calls |-> Append(acc.calls, Invocation(fn, Head(elems)))])

mapStringToIntSlice(fn, src) == mapEach(fn, src.elems, [out |-> <<>>, calls |-> <<>>])

mapIntToStringSlice(fn, src) == mapEach(fn, src.elems, [out |-> <<>>, calls |-> <<>>])

\* only an empty source is answered; anything else is left to reflection
performUnsafeSliceMapping(D, src) ==
    IF Len(src.elems) = 0
    THEN [val |-> Val(FALSE, 0, 0, <<>>), calls |-> <<>>, success |-> TRUE]
    ELSE [val |-> Zero(D), calls |-> <<>>, success |-> FALSE]

fastSliceMapping(fn, S, D, src, srcElemIsPtr, dstElemIsPtr) ==
    IF ~srcElemIsPtr /\ ~dstElemIsPtr /\ fn.in = AnyType /\ fn.out = AnyType
    THEN performUnsafeSliceMapping(D, src)
    ELSE IF fn.in = StringType /\ fn.out = IntType /\ S = SliceOf(StringType)
    THEN LET r == mapStringToIntSlice(fn, src)
         IN  IF D = SliceOf(IntType)
             THEN [val |-> Val(FALSE, 0, 0, r.out), calls |-> r.calls, success |-> TRUE]
             ELSE [val |-> Zero(D), calls |-> r.calls, success |-> FALSE]
    ELSE IF fn.in = IntType /\ fn.out = StringType /\ S = SliceOf(IntType)
    THEN LET r == mapIntToStringSlice(fn, src)
         IN  IF D = SliceOf(StringType)
             THEN [val |-> Val(FALSE, 0, 0, r.out), calls |-> r.calls, success |-> TRUE]
             ELSE [val |-> Zero(D), calls |-> r.calls, success |-> FALSE]
    ELSE [val |-> Zero(D), calls |-> <<>>, success |-> FALSE]

\* mapSliceElement that answers a nil element with a pointer to a zero value
mapSliceElementAllocatesForNil(fn, srcElemType, srcElem, srcElemIsPtr, dstElemIsPtr, dstElemType, calls) ==
    IF srcElemIsPtr /\ IsNil(srcElem)
    THEN [ty |-> dstElemType,
          val |-> IF dstElemIsPtr THEN AddrOf(Zero(Elem(dstElemType))) ELSE Zero(dstElemType),
          calls |-> calls, panic |-> FALSE]
    ELSE LET fnInIsPtr == Kind(fn.in) = "ptr"
             argTy   == IF fnInIsPtr /\ ~srcElemIsPtr THEN PtrTo(srcElemType)
                        ELSE IF ~fnInIsPtr /\ srcElemIsPtr THEN Elem(srcElemType)
                        ELSE srcElemType
             callArg == IF fnInIsPtr /\ ~srcElemIsPtr THEN AddrOf(srcElem)
                        ELSE IF ~fnInIsPtr /\ srcElemIsPtr THEN Deref(srcElem)
                        ELSE srcElem
             result  == Call(fn, argTy, callArg, calls)
             fnOutIsPtr == Kind(fn.out) = "ptr"
         IN  IF result.panic THEN result
             ELSE IF dstElemIsPtr /\ ~fnOutIsPtr
             THEN [result EXCEPT !.ty = PtrTo(result.ty), !.val = AddrOf(result.val)]
             ELSE IF ~dstElemIsPtr /\ fnOutIsPtr
             THEN IF IsNil(result.val)
                  THEN [result EXCEPT !.ty = dstElemType, !.val = Zero(dstElemType)]
                  ELSE [result EXCEPT !.ty = Elem(result.ty), !.val = Deref(result.val)]
             ELSE result

\* mapSliceElement that hands a pointer element to the function as it is
mapSliceElementPassesPointer(fn, srcElemType, srcElem, srcElemIsPtr, dstElemIsPtr, dstElemType, calls) ==
    IF srcElemIsPtr /\ IsNil(srcElem)
    THEN [ty |-> dstElemType, val |-> Zero(dstElemType), calls |-> calls, panic |-> FALSE]
    ELSE LET fnInIsPtr == Kind(fn.in) = "ptr"
             argTy   == IF fnInIsPtr /\ ~srcElemIsPtr THEN PtrTo(srcElemType) ELSE srcElemType
             callArg == IF fnInIsPtr /\ ~srcElemIsPtr THEN AddrOf(srcElem) ELSE srcElem
             result  == Call(fn, argTy, callArg, calls)
             fnOutIsPtr == Kind(fn.out) = "ptr"
         IN  IF result.panic THEN result
             ELSE IF dstElemIsPtr /\ ~fnOutIsPtr
             THEN [result EXCEPT !.ty = PtrTo(result.ty), !.val = AddrOf(result.val)]
             ELSE IF ~dstElemIsPtr /\ fnOutIsPtr
             THEN IF IsNil(result.val)
                  THEN [result EXCEPT !.ty = dstElemType, !.val = Zero(dstElemType)]
                  ELSE [result EXCEPT !.ty = Elem(result.ty), !.val = Deref(result.val)]
             ELSE result

mapSliceElement(fn, srcElemType, srcElem, srcElemIsPtr, dstElemIsPtr, dstElemType, calls) ==
    IF srcElemIsPtr /\ IsNil(srcElem)
    THEN [ty |-> dstElemType, val |-> Zero(dstElemType), calls |-> calls, panic |-> FALSE]
    ELSE LET fnInIsPtr == Kind(fn.in) = "ptr"
             argTy   == IF fnInIsPtr /\ ~srcElemIsPtr THEN PtrTo(srcElemType)
                        ELSE IF ~fnInIsPtr /\ srcElemIsPtr THEN Elem(srcElemType)
                        ELSE srcElemType
             callArg == IF fnInIsPtr /\ ~srcElemIsPtr THEN AddrOf(srcElem)
                        ELSE IF ~fnInIsPtr /\ srcElemIsPtr THEN Deref(srcElem)
                        ELSE srcElem
             result  == Call(fn, argTy, callArg, calls)
             fnOutIsPtr == Kind(fn.out) = "ptr"
         IN  IF result.panic THEN result
             ELSE IF dstElemIsPtr /\ ~fnOutIsPtr
             THEN [result EXCEPT !.ty = PtrTo(result.ty), !.val = AddrOf(result.val)]
             ELSE IF ~dstElemIsPtr /\ fnOutIsPtr
             THEN IF IsNil(result.val)
                  THEN [result EXCEPT !.ty = dstElemType, !.val = Zero(dstElemType)]
                  ELSE [result EXCEPT !.ty = Elem(result.ty), !.val = Deref(result.val)]
             ELSE result

\* the loop of mapSliceWithReflection: dstSlice.Index(i).Set(mappedElem)
\* panics when the mapped element is not of the destination element type
RECURSIVE sliceLoop(_, _, _, _, _)
sliceLoop(fn, srcElemType, dstElemType, elems, acc) ==
    IF elems = <<>> \/ acc.panic THEN acc
    ELSE LET mappedElem == mapSliceElement(fn, srcElemType, Head(elems), Kind(srcElemType) = "ptr",
                                           Kind(dstElemType) = "ptr", dstElemType, acc.calls)
         IN  sliceLoop(fn, srcElemType, dstElemType, Tail(elems),
                       [out   |-> Append(acc.out, mappedElem.val),
                        calls |-> mappedElem.calls,
                        panic |-> mappedElem.panic \/ mappedElem.ty # dstElemType])

mapSliceWithReflection(fn, src, srcType, dstType, srcElemType, dstElemType, calls) ==
    LET r == sliceLoop(fn, srcElemType, dstElemType, src.elems,
                       [out |-> <<>>, calls |-> calls, panic |-> FALSE])
    IN  IF r.panic THEN Panic(r.calls) ELSE Ret(Val(FALSE, 0, 0, r.out), ErrNil, r.calls)

\* MapSlice that validates the source type only
MapSliceChecksSourceOnly(m, S, D, src) ==
    LET dst == Zero(D)
    IN  IF Kind(S) # "slice"
        THEN Ret(dst, ErrSrcAndDestMustBeSlices, <<>>)
        ELSE LET srcElemType == Elem(S)
                 dstElemType == IF Kind(D) = "slice" THEN Elem(D) ELSE D
                 key  == lookupKey(srcElemType, dstElemType)
             IN  IF key \notin DOMAIN m
                 THEN Ret(dst, ErrNoMapping, <<>>)
                 ELSE LET fast == fastSliceMapping(m[key], S, D, src, Kind(srcElemType) = "ptr",
                                                   Kind(dstElemType) = "ptr")
                      IN  IF fast.success
                          THEN Ret(fast.val, ErrNil, fast.calls)
                          ELSE mapSliceWithReflection(m[key], src, S, D, srcElemType, dstElemType,
                                                      fast.calls)

MapSlice(m, S, D, src) ==
    LET dst == Zero(D)
    IN  IF Kind(S) # "slice" \/ Kind(D) # "slice"
        THEN Ret(dst, ErrSrcAndDestMustBeSlices, <<>>)
        ELSE LET srcElemType == Elem(S)
                 dstElemType == Elem(D)
                 key  == lookupKey(srcElemType, dstElemType)
             IN  IF key \notin DOMAIN m
                 THEN Ret(dst, ErrNoMapping, <<>>)
                 ELSE LET fast == fastSliceMapping(m[key], S, D, src, Kind(srcElemType) = "ptr",
                                                   Kind(dstElemType) = "ptr")
                      IN  IF fast.success
                          THEN Ret(fast.val, ErrNil, fast.calls)
                          ELSE mapSliceWithReflection(m[key], src, S, D, srcElemType, dstElemType,
                                                      fast.calls)

\* ------------------------------------------------ MapUnsafe, MapSliceUnsafe
\* the key is taken from S and D as declared; a stored func(S) D is called
\* directly, anything else is left to Map
MapUnsafe(m, S, D, src) ==
    LET dst == Zero(D)
        key == typePair(S, D)
    IN  IF key \notin DOMAIN m
        THEN Ret(dst, ErrNoMapping, <<>>)
        ELSE IF m[key].in = S /\ m[key].out = D
        THEN Ret(Apply(m[key], src), ErrNil, <<Invocation(m[key], src)>>)
        ELSE Map(m, S, D, src)

\* the type switch over func(string) int, func(int) string, func(int) int and
\* func(string) string: the loop runs when the source slice matches, and the
\* result is kept when it is a D
performUnsafeSliceMappingDirect(fn, S, D, src) ==
    IF /\ fn.in \in {StringType, IntType}
       /\ fn.out \in {StringType, IntType}
       /\ S = SliceOf(fn.in)
    THEN LET r == mapEach(fn, src.elems, [out |-> <<>>, calls |-> <<>>])
         IN  IF D = SliceOf(fn.out)
             THEN [val |-> Val(FALSE, 0, 0, r.out), calls |-> r.calls, success |-> TRUE]
             ELSE [val |-> Zero(D), calls |-> r.calls, success |-> FALSE]
    ELSE [val |-> Zero(D), calls |-> <<>>, success |-> FALSE]

\* the key is the pair of element types as declared; an empty source is
\* answered at once, a source the type switch does not take is left to MapSlice
MapSliceUnsafe(m, S, D, src) ==
    LET dst == Zero(D)
    IN  IF Kind(S) # "slice" \/ Kind(D) # "slice"
        THEN Ret(dst, ErrSrcAndDestMustBeSlices, <<>>)
        ELSE LET key == typePair(Elem(S), Elem(D))
             IN  IF key \notin DOMAIN m
                 THEN Ret(dst, ErrNoMapping, <<>>)
                 ELSE IF Len(src.elems) = 0
                 THEN Ret(Val(FALSE, 0, 0, <<>>), ErrNil, <<>>)
                 ELSE LET direct == performUnsafeSliceMappingDirect(m[key], S, D, src)
                          safe   == MapSlice(m, S, D, src)
                      IN  IF direct.success
                          THEN Ret(direct.val, ErrNil, direct.calls)
                          ELSE [safe EXCEPT !.calls = direct.calls \o @]

\* ------------------------------------------------------------- the calls
\* the type arguments and functions the callers use
PtrStringType == PtrTo(StringType)

PtrIntType == PtrTo(IntType)

\* the pairs S, D a caller registers a function for: a value pair, its
\* reverse, and a pointer-shaped pair
RegPairs ==
    {typePair(StringType, IntType), typePair(IntType, StringType), typePair(PtrStringType, PtrIntType)}

\* the pairs S, D a caller passes to RegisterAutoMap
AutoPairs == {typePair(StringType, IntType), typePair(IntType, StringType)}

\* the pairs S, D a caller passes to Remove: the registered pairs, and the
\* pointer forms of a registered value pair
RemovePairs ==
    RegPairs \cup {typePair(PtrStringType, IntType), typePair(StringType, PtrIntType)}

ArgPairs == {typePair(s, d) : s \in ValTypes, d \in ValTypes}

AllTypes == ValTypes \cup SliceTypes

\* the type arguments of MapSlice: every source type with every slice type,
\* every slice type with a destination that is no slice, and the slices of
\* pointers to the pointer-shaped registered pair
SlicePairs ==
    {typePair(s, d) : s \in AllTypes, d \in SliceTypes}
        \cup {typePair(s, d) : s \in SliceTypes, d \in {IntType, PtrIntType}}
        \cup {typePair(SliceOf(PtrTo(PtrStringType)), SliceOf(PtrTo(PtrIntType)))}

\* the type arguments of Map: the value and pointer types, a pointer to a
\* pointer, an interface type on either side, and the slice types of a
\* registered pair of element types
MapPairs ==
    ArgPairs
        \cup {typePair(PtrTo(PtrStringType), IntType)}
        \cup {typePair(AnyType, IntType), typePair(StringType, AnyType), typePair(AnyType, AnyType)}
        \cup {typePair(SliceOf(p.src), SliceOf(p.dst)) : p \in AutoPairs}

NoResult == Ret(NoVal, ErrNil, <<>>)

\* the last call made on the registry: its arguments and what it returned
Last(op, S, D, fn, src, r, ok, replaced, afterOverwrite) ==
    [op |-> op, S |-> S, D |-> D, fn |-> fn, src |-> src, res |-> r.val, err |-> r.err,
     calls |-> r.calls, panic |-> r.panic, ok |-> ok, replaced |-> replaced,
     afterOverwrite |-> afterOverwrite, list |-> <<>>, inst |-> 0, mid |-> NoVal]

\* the call before this one registered a different function over an existing entry of key
overwrote(key) ==
    /\ last.op = "Register"
    /\ last.replaced \notin {"none", last.fn}
    /\ declaredKey(last.S, last.D) = key

\* hist records the calls, not their effect: for each pair of type arguments,
\* the function that the last Register or RegisterAutoMap naming the pair
\* registered, and nothing for a pair never named or last named by Remove
NoWrites == [k \in {} |-> "none"]

wrote(h, p, id) == [k \in (DOMAIN h) \cup {p} |-> IF k = p THEN id ELSE h[k]]

lastWrite(k) == IF k \in DOMAIN hist THEN hist[k] ELSE "none"

\* Has, Map and MapSlice leave registry and hist unchanged, so what a read
\* returns does not depend on the reads before it: the model takes every
\* read from the state the last write left, and any write after any call.
AfterWrite == last.op \in {"New", "Register", "RegisterAutoMap", "Remove"}

\* the goroutines that call the package on one Mapper
Procs == 1..MaxProcs

\* the calls they make
ConcOps ==
    {[op |-> "Register", S |-> StringType, D |-> IntType, fn |-> "f", src |-> NoVal],
     [op |-> "RegisterAutoMap", S |-> StringType, D |-> IntType, fn |-> "auto", src |-> NoVal],
     [op |-> "Remove", S |-> StringType, D |-> IntType, fn |-> "none", src |-> NoVal],
     [op |-> "Has", S |-> StringType, D |-> IntType, fn |-> "none", src |-> NoVal],
     [op |-> "Map", S |-> StringType, D |-> IntType, fn |-> "none", src |-> Val(FALSE, 0, 1, <<>>)],
     [op |-> "MapSlice", S |-> SliceOf(StringType), D |-> SliceOf(IntType), fn |-> "none",
      src |-> Val(FALSE, 0, 0, <<Val(FALSE, 0, 0, <<>>), Val(FALSE, 0, 1, <<>>)>>)],
     [op |-> "List", S |-> NoType, D |-> NoType, fn |-> "none", src |-> NoVal]}

\* an access that also counts the lookup of Map as a write of the map
accessMapWrites(o) ==
    IF o.op \in {"Register", "RegisterAutoMap", "Remove", "Map"} THEN "write" ELSE "read"

\* what the call does to m.registry: an assignment or a delete, or a
\* lookup, len or range
access(o) == IF o.op \in {"Register", "RegisterAutoMap", "Remove"} THEN "write" ELSE "read"

\* a call whose Map stores what it looked up
effectMapStores(o, m) ==
    CASE o.op = "Register" -> Register(m, o.S, o.D, o.fn)
      [] o.op = "RegisterAutoMap" -> RegisterAutoMap(m, o.S, o.D)
      [] o.op = "Remove" -> Remove(m, o.S, o.D)
      [] o.op = "Map" -> store(m, typePair(o.D, o.S), Entry("auto", o.D, o.S))
      [] OTHER -> m

\* the registry the call leaves
effect(o, m) ==
    CASE o.op = "Register" -> Register(m, o.S, o.D, o.fn)
      [] o.op = "RegisterAutoMap" -> RegisterAutoMap(m, o.S, o.D)
      [] o.op = "Remove" -> Remove(m, o.S, o.D)
      [] OTHER -> m

\* what the call returns on the registry m, as a record of the call; List
\* returns one of the sequences the map's iteration order allows
results(o, m) ==
    CASE o.op = "Has" ->
            {Last("Has", o.S, o.D, "none", NoVal, NoResult, Has(m, o.S, o.D), "none", FALSE)}
      [] o.op = "Map" ->
            {Last("Map", o.S, o.D, "none", o.src, Map(m, o.S, o.D, o.src), FALSE, "none", FALSE)}
      [] o.op = "MapSlice" ->
            {Last("MapSlice", o.S, o.D, "none", o.src, MapSlice(m, o.S, o.D, o.src), FALSE, "none", FALSE)}
      [] o.op = "List" ->
            {[Last("List", NoType, NoType, "none", NoVal, NoResult, FALSE, "none", FALSE)
                 EXCEPT !.list = keys] : keys \in List(m)}
      [] OTHER -> {Last(o.op, o.S, o.D, o.fn, NoVal, NoResult, FALSE, "none", FALSE)}

Idle == [pc |-> "idle", call |-> [op |-> "none", S |-> NoType, D |-> NoType, fn |-> "none", src |-> NoVal],
         raced |-> FALSE, expect |-> {}]

\* two accesses to one map that the Go memory model forbids to overlap
conflict(o1, o2) == access(o1) = "write" \/ access(o2) = "write"

Init ==
    /\ registry = New
    /\ hist = NoWrites
    /\ last = Last("New", NoType, NoType, "none", NoVal, NoResult, FALSE, "none", FALSE)
    /\ arrays = <<>>
    /\ held = <<>>
    /\ maps = <<New>>
    /\ mappers = <<1>>
    /\ procs = [g \in Procs |-> Idle]
    /\ fatal = FALSE

CallRegister ==
    \E p \in RegPairs, id \in UserFns :
        /\ registry' = Register(registry, p.src, p.dst, id)
        /\ hist' = wrote(hist, p, id)
        /\ last' = Last("Register", p.src, p.dst, id, NoVal, NoResult, FALSE,
                        IF p \in DOMAIN registry THEN registry[p].id ELSE "none", FALSE)
        /\ UNCHANGED aux

CallRegisterAutoMap ==
    \E p \in AutoPairs :
        /\ registry' = RegisterAutoMap(registry, p.src, p.dst)
        /\ hist' = wrote(wrote(hist, p, "auto"), typePair(p.dst, p.src), "auto")
        /\ last' = Last("RegisterAutoMap", p.src, p.dst, "auto", NoVal, NoResult, FALSE,
                        IF p \in DOMAIN registry THEN registry[p].id ELSE "none", FALSE)
        /\ UNCHANGED aux

CallRemove ==
    \E p \in RemovePairs :
        /\ registry' = Remove(registry, p.src, p.dst)
        /\ hist' = [k \in (DOMAIN hist) \ {p} |-> hist[k]]
        /\ last' = Last("Remove", p.src, p.dst, "none", NoVal, NoResult, FALSE,
                        IF p \in DOMAIN registry THEN registry[p].id ELSE "none", FALSE)
        /\ UNCHANGED aux

CallHas ==
    /\ AfterWrite
    /\ \E p \in ArgPairs :
        /\ last' = Last("Has", p.src, p.dst, "none", NoVal, NoResult, Has(registry, p.src, p.dst),
                        "none", FALSE)
        /\ UNCHANGED <<registry, hist, aux>>

CallMap ==
    /\ AfterWrite
    /\ \E p \in MapPairs :
        \E src \in InputsOf(p.src) :
            /\ last' = Last("Map", p.src, p.dst, "none", src, Map(registry, p.src, p.dst, src), FALSE,
                            "none", overwrote(lookupKey(p.src, p.dst)))
            /\ UNCHANGED <<registry, hist, aux>>

CallMapSlice ==
    /\ AfterWrite
    /\ \E p \in SlicePairs :
        \E src \in InputsOf(p.src) :
            /\ last' = Last("MapSlice", p.src, p.dst, "none", src, MapSlice(registry, p.src, p.dst, src),
                            FALSE, "none",
                            /\ Kind(p.src) = "slice"
                            /\ Kind(p.dst) = "slice"
                            /\ overwrote(lookupKey(Elem(p.src), Elem(p.dst))))
            /\ UNCHANGED <<registry, hist, aux>>

Next ==
    \/ CallRegister
    \/ CallRegisterAutoMap
    \/ CallRemove
    \/ CallHas
    \/ CallMap
    \/ CallMapSlice

Spec == Init /\ [][Next]_vars

\* ---------------------------------------------------- the slices of List
\* a caller that fills the registry, then calls List and writes to the
\* slices it got: mappings[0] = "modified"
CallList ==
    /\ Len(held) < MaxLists
    /\ \E keys \in List(registry) :
        LET a == makeSlice(arrays)
        IN  /\ arrays' = IF a \in DOMAIN arrays THEN [arrays EXCEPT ![a] = keys] ELSE Append(arrays, keys)
            /\ held' = Append(held, a)
            /\ last' = [Last("List", NoType, NoType, "none", NoVal, NoResult, FALSE, "none", FALSE)
                            EXCEPT !.list = keys]
            /\ UNCHANGED <<registry, hist, maps, mappers, procs, fatal>>

MutateList ==
    \E i \in DOMAIN held :
        /\ arrays[held[i]] # <<>>
        /\ arrays[held[i]][1] # "modified"
        /\ arrays' = [arrays EXCEPT ![held[i]][1] = "modified"]
        /\ last' = Last("Mutate", NoType, NoType, "none", NoVal, NoResult, FALSE, "none", FALSE)
        /\ UNCHANGED <<registry, hist, held, maps, mappers, procs, fatal>>

NextList ==
    \/ held = <<>> /\ CallRegister
    \/ held = <<>> /\ CallRegisterAutoMap
    \/ held = <<>> /\ CallRemove
    \/ CallList
    \/ MutateList

SpecList == Init /\ [][NextList]_vars

\* ------------------------------------------------------- several Mappers
\* Global and the Mappers of later New() calls, each written through its own
\* Mapper value
CallNew ==
    /\ Len(mappers) < MaxMappers
    /\ LET a == makeMap(maps)
       IN  /\ maps' = IF a \in DOMAIN maps THEN maps ELSE Append(maps, New)
           /\ mappers' = Append(mappers, a)
           /\ last' = [Last("New", NoType, NoType, "none", NoVal, NoResult, FALSE, "none", FALSE)
                           EXCEPT !.inst = Len(mappers) + 1]
    /\ UNCHANGED <<registry, hist, arrays, held, procs, fatal>>

RegisterOn ==
    \E i \in DOMAIN mappers, p \in AutoPairs :
        /\ maps' = [maps EXCEPT ![mappers[i]] = Register(@, p.src, p.dst, "f")]
        /\ last' = [Last("Register", p.src, p.dst, "f", NoVal, NoResult, FALSE, "none", FALSE)
                        EXCEPT !.inst = i]
        /\ UNCHANGED <<registry, hist, arrays, held, mappers, procs, fatal>>

RegisterAutoMapOn ==
    \E i \in DOMAIN mappers :
        /\ maps' = [maps EXCEPT ![mappers[i]] = RegisterAutoMap(@, StringType, IntType)]
        /\ last' = [Last("RegisterAutoMap", StringType, IntType, "auto", NoVal, NoResult, FALSE, "none",
                          FALSE) EXCEPT !.inst = i]
        /\ UNCHANGED <<registry, hist, arrays, held, mappers, procs, fatal>>

RemoveOn ==
    \E i \in DOMAIN mappers, p \in AutoPairs :
        /\ maps' = [maps EXCEPT ![mappers[i]] = Remove(@, p.src, p.dst)]
        /\ last' = [Last("Remove", p.src, p.dst, "none", NoVal, NoResult, FALSE, "none", FALSE)
                        EXCEPT !.inst = i]
        /\ UNCHANGED <<registry, hist, arrays, held, mappers, procs, fatal>>

NextMappers ==
    \/ CallNew
    \/ RegisterOn
    \/ RegisterAutoMapOn
    \/ RemoveOn

SpecMappers == Init /\ [][NextMappers]_vars

\* ------------------------------------------- goroutines on one Mapper
\* No function of the package takes a lock: a call enters its access to
\* m.registry whenever its goroutine runs, and leaves it in a later step.
Begin ==
    \E g \in Procs, o \in ConcOps :
        /\ ~fatal
        /\ procs[g].pc = "idle"
        /\ procs' = [h \in Procs |->
                        IF h = g
                        THEN [pc |-> "access", call |-> o,
                              raced |-> \E k \in Procs : procs[k].pc = "access" /\ conflict(o, procs[k].call),
                              expect |-> results(o, registry)]
                        ELSE IF procs[h].pc = "access" /\ conflict(o, procs[h].call)
                        THEN [procs[h] EXCEPT !.raced = TRUE]
                        ELSE procs[h]]
        /\ UNCHANGED <<registry, hist, last, arrays, held, maps, mappers, fatal>>

\* the access ends: the call has done its work on the map and returns
Finish ==
    \E g \in Procs :
        /\ ~fatal
        /\ procs[g].pc = "access"
        /\ registry' = effect(procs[g].call, registry)
        /\ last' \in results(procs[g].call, registry)
        /\ procs' = [procs EXCEPT ![g] = Idle]
        /\ UNCHANGED <<hist, arrays, held, maps, mappers, fatal>>

\* an access that overlapped a conflicting one is a data race: the runtime
\* may detect it and stop the program
Throw ==
    \E g \in Procs :
        /\ ~fatal
        /\ procs[g].pc = "access"
        /\ procs[g].raced
        /\ fatal' = TRUE
        /\ UNCHANGED <<registry, hist, last, arrays, held, maps, mappers, procs>>

NextConc ==
    \/ Begin
    \/ Finish
    \/ Throw

SpecConc == Init /\ [][NextConc]_vars

\* ------------------------------------------------- automatic mappings
\* a caller that registers automatic mappings between struct types, removes
\* them, and maps a value to the other type and back
StructPairs ==
    {typePair(StructType("Foo"), StructType("Bar")), typePair(StructType("Bar"), StructType("Foo")),
     typePair(StructType("Source"), StructType("Dest")), typePair(StructType("Dest"), StructType("Source"))}

RegisterAutoMapStructs ==
    \E p \in StructPairs :
        /\ registry' = RegisterAutoMap(registry, p.src, p.dst)
        /\ hist' = wrote(wrote(hist, p, "auto"), typePair(p.dst, p.src), "auto")
        /\ last' = Last("RegisterAutoMap", p.src, p.dst, "auto", NoVal, NoResult, FALSE,
                        IF p \in DOMAIN registry THEN registry[p].id ELSE "none", FALSE)
        /\ UNCHANGED aux

RemoveStructs ==
    \E p \in StructPairs :
        /\ registry' = Remove(registry, p.src, p.dst)
        /\ hist' = [k \in (DOMAIN hist) \ {p} |-> hist[k]]
        /\ last' = Last("Remove", p.src, p.dst, "none", NoVal, NoResult, FALSE,
                        IF p \in DOMAIN registry THEN registry[p].id ELSE "none", FALSE)
        /\ UNCHANGED aux

\* d, err := Map[S, D](m, s); s2, err := Map[D, S](m, d)
MapThereAndBack ==
    \E p \in StructPairs :
        \E src \in StructValues(p.src) :
            LET there == Map(registry, p.src, p.dst, src)
                back  == IF there.err = ErrNil THEN Map(registry, p.dst, p.src, there.val) ELSE there
            IN  /\ last' = [Last("MapThereAndBack", p.src, p.dst, "none", src, back, FALSE, "none", FALSE)
                                EXCEPT !.mid = there.val]
                /\ UNCHANGED <<registry, hist, aux>>

NextAuto ==
    \/ RegisterAutoMapStructs
    \/ RemoveStructs
    \/ MapThereAndBack

SpecAuto == Init /\ [][NextAuto]_vars

\* --------------------------------------------------- the unsafe variants
\* a caller of MapUnsafe and MapSliceUnsafe on the registry
UnsafeSlicePairs == {typePair(s, d) : s \in SliceTypes, d \in SliceTypes}

CallMapUnsafe ==
    /\ AfterWrite
    /\ \E p \in ArgPairs :
        \E src \in InputsOf(p.src) :
            /\ last' = Last("MapUnsafe", p.src, p.dst, "none", src, MapUnsafe(registry, p.src, p.dst, src),
                            FALSE, "none", FALSE)
            /\ UNCHANGED <<registry, hist, aux>>

CallMapSliceUnsafe ==
    /\ AfterWrite
    /\ \E p \in UnsafeSlicePairs :
        \E src \in InputsOf(p.src) :
            /\ last' = Last("MapSliceUnsafe", p.src, p.dst, "none", src,
                            MapSliceUnsafe(registry, p.src, p.dst, src), FALSE, "none", FALSE)
            /\ UNCHANGED <<registry, hist, aux>>

NextUnsafe ==
    \/ CallRegister
    \/ CallRegisterAutoMap
    \/ CallRemove
    \/ CallMapUnsafe
    \/ CallMapSliceUnsafe

SpecUnsafe == Init /\ [][NextUnsafe]_vars

\* ------------------------------------------------------------ the claims
\* the value type under the pointer layers of t
Base(t) == Ty("val", t.base, 0)

\* what the function fn gives for a source of type S asked as a D: nothing
\* for a nil pointer, else the function's result, wrapped when D is a pointer
converted(fn, S, D, src) ==
    IF Kind(S) = "ptr" /\ IsNil(src) THEN Zero(D)
    ELSE LET r == Apply(fn, IF Kind(S) = "ptr" THEN Deref(src) ELSE src)
         IN  IF Kind(D) = "ptr" THEN AddrOf(r) ELSE r

NonNil(e) == ~IsNil(e)

\* C1: with a function registered for non-pointer T and U, Map over each of
\* the four value/pointer shapes of source and destination returns no error
\* and the same f(v); a pointer destination is non-nil and points to f(v).
C1_ShapeSymmetry ==
    (/\ last.op = "Map"
     /\ last.S.kind = "val"
     /\ last.D.kind = "val"
     /\ last.S.ptr <= 1
     /\ last.D.ptr <= 1
     /\ lastWrite(typePair(Base(last.S), Base(last.D))) \in UserFns
     /\ ~last.src.nil)
    => /\ ~last.panic
       /\ last.err = ErrNil
       /\ last.res = Val(FALSE, last.D.ptr,
                         BaseFn(lastWrite(typePair(Base(last.S), Base(last.D))), last.src.v), <<>>)

C1_Witness ==
    /\ last.op = "Map"
    /\ last.S.ptr = 1
    /\ last.D.ptr = 1
    /\ lastWrite(typePair(Base(last.S), Base(last.D))) \in UserFns
    /\ ~last.src.nil
    /\ last.err = ErrNil
    /\ last.res.lv = 1
    /\ ~last.res.nil

\* C2: with no entry for the lookup key, Map returns D's zero value and
\* ErrNoMapping, MapSlice the nil slice and ErrNoMapping, and no function is
\* invoked; equal source and destination types are no exception.
C2_UnregisteredLookup ==
    /\ (/\ last.op = "Map"
        /\ last.S.kind # "iface"
        /\ last.D.kind # "iface"
        /\ lookupKey(last.S, last.D) \notin DOMAIN registry)
       => /\ ~last.panic
          /\ last.err = ErrNoMapping
          /\ last.res = Zero(last.D)
          /\ last.calls = <<>>
    /\ (/\ last.op = "MapSlice"
        /\ Kind(last.S) = "slice"
        /\ Kind(last.D) = "slice"
        /\ lookupKey(Elem(last.S), Elem(last.D)) \notin DOMAIN registry)
       => /\ ~last.panic
          /\ last.err = ErrNoMapping
          /\ last.res = Val(TRUE, 0, 0, <<>>)
          /\ last.calls = <<>>

C2_Witness ==
    /\ last.op = "Map"
    /\ last.S = last.D
    /\ last.src.v > 0
    /\ DOMAIN registry # {}
    /\ lookupKey(last.S, last.D) \notin DOMAIN registry
    /\ last.err = ErrNoMapping

\* C3: Map of a nil pointer source, when the pair has an entry, returns D's
\* zero value (nil for a pointer D) and no error, and invokes nothing.
C3_NilPropagationScalar ==
    (/\ last.op = "Map"
     /\ Kind(last.S) = "ptr"
     /\ IsNil(last.src)
     /\ lookupKey(last.S, last.D) \in DOMAIN registry)
    => /\ ~last.panic
       /\ last.err = ErrNil
       /\ last.res = Zero(last.D)
       /\ last.calls = <<>>

C3_Witness ==
    /\ last.op = "Map"
    /\ Kind(last.S) = "ptr"
    /\ Kind(last.D) = "ptr"
    /\ IsNil(last.src)
    /\ lookupKey(last.S, last.D) \in DOMAIN registry
    /\ last.err = ErrNil
    /\ IsNil(last.res)

\* C4: once a second function is registered over a first one for a pair,
\* every later Map and MapSlice resolved to that pair invokes only the
\* function registered last and returns its result; the pair has one entry.
C4_RegistrationOverwrite ==
    LET mapKey   == lookupKey(last.S, last.D)
        sliceKey == lookupKey(Elem(last.S), Elem(last.D))
    IN  /\ \A k \in DOMAIN registry : lastWrite(k) = registry[k].id
        /\ (last.op = "Map" /\ lastWrite(mapKey) # "none")
           => /\ \A i \in DOMAIN last.calls :
                    last.calls[i].fn = lastWrite(mapKey) /\ typePair(last.calls[i].in, last.calls[i].out) = mapKey
              /\ ~last.panic =>
                    /\ last.err = ErrNil
                    /\ last.res = converted(Entry(lastWrite(mapKey), mapKey.src, mapKey.dst),
                                            last.S, last.D, last.src)
        /\ (last.op = "MapSlice" /\ Kind(last.S) = "slice" /\ Kind(last.D) = "slice"
                /\ lastWrite(sliceKey) # "none")
           => /\ \A i \in DOMAIN last.calls :
                    last.calls[i].fn = lastWrite(sliceKey) /\ typePair(last.calls[i].in, last.calls[i].out) = sliceKey
              /\ ~last.panic =>
                    /\ last.err = ErrNil
                    /\ Len(last.res.elems) = Len(last.src.elems)
                    /\ \A i \in DOMAIN last.src.elems :
                          last.res.elems[i] =
                              converted(Entry(lastWrite(sliceKey), sliceKey.src, sliceKey.dst),
                                        Elem(last.S), Elem(last.D), last.src.elems[i])

C4_Witness ==
    /\ last.op = "Map"
    /\ last.afterOverwrite
    /\ last.err = ErrNil
    /\ Len(last.calls) = 1
    /\ last.calls[1].fn = lastWrite(lookupKey(last.S, last.D))

\* C5: a function registered with pointer-shaped types *T and *U is found by
\* Map[*T, *U], which returns the function's result and no error.
C5_PointerShapedRegistration ==
    (/\ last.op = "Map"
     /\ last.S.ptr = 1
     /\ last.D.ptr = 1
     /\ lastWrite(typePair(last.S, last.D)) \in UserFns
     /\ ~last.src.nil)
    => /\ ~last.panic
       /\ last.err = ErrNil
       /\ last.res = Apply(Entry(lastWrite(typePair(last.S, last.D)), last.S, last.D), last.src)

\* C6: MapSlice over pointer elements, some nil: a nil position gives the
\* destination element's zero value (nil for a pointer element) without an
\* invocation, any other position its converted element; order and length
\* are kept.
C6_NilPropagationSlice ==
    LET key == typePair(Base(last.S), Base(last.D))
        fn  == registry[key]
        present == SelectSeq(last.src.elems, NonNil)
    IN  (/\ last.op = "MapSlice"
         /\ Kind(last.S) = "slice"
         /\ Kind(last.D) = "slice"
         /\ last.S.ptr = 1
         /\ last.D.ptr <= 1
         /\ key \in DOMAIN registry)
        => /\ ~last.panic
           /\ last.err = ErrNil
           /\ Len(last.res.elems) = Len(last.src.elems)
           /\ \A i \in DOMAIN last.src.elems :
                 last.res.elems[i] =
                     IF IsNil(last.src.elems[i]) THEN Zero(Elem(last.D))
                     ELSE Val(FALSE, last.D.ptr, BaseFn(fn.id, last.src.elems[i].v), <<>>)
           /\ Len(last.calls) = Len(present)
           /\ \A i \in DOMAIN present : last.calls[i] = Invocation(fn, Deref(present[i]))

C6_Witness ==
    /\ last.op = "MapSlice"
    /\ Kind(last.S) = "slice"
    /\ Kind(last.D) = "slice"
    /\ last.S.ptr = 1
    /\ last.D.ptr = 1
    /\ last.err = ErrNil
    /\ Len(last.src.elems) = 2
    /\ IsNil(last.src.elems[1])
    /\ ~IsNil(last.src.elems[2])
    /\ IsNil(last.res.elems[1])
    /\ ~IsNil(last.res.elems[2])

\* C7: a MapSlice call that succeeds returns a slice of the input's length
\* whose element i is the conversion of input element i, on the fast path
\* and on the reflection path.
C7_SliceLengthAndOrder ==
    LET key == lookupKey(Elem(last.S), Elem(last.D))
    IN  (/\ last.op = "MapSlice"
         /\ last.err = ErrNil
         /\ ~last.panic)
        => /\ Len(last.res.elems) = Len(last.src.elems)
           /\ \A i \in DOMAIN last.src.elems :
                 last.res.elems[i] = converted(Entry(lastWrite(key), key.src, key.dst),
                                               Elem(last.S), Elem(last.D), last.src.elems[i])

C7_Witness ==
    /\ last.op = "MapSlice"
    /\ last.S = SliceOf(StringType)
    /\ last.D = SliceOf(IntType)
    /\ last.err = ErrNil
    /\ Len(last.src.elems) = 2
    /\ last.src.elems[1] # last.src.elems[2]
    /\ last.res.elems[1] # last.res.elems[2]
    /\ Len(last.calls) = 2

\* C8: MapSlice with a source or destination type that is not a slice
\* returns D's zero value and ErrSrcAndDestMustBeSlices, whatever is
\* registered, and invokes nothing.
C8_NonSliceRejected ==
    (last.op = "MapSlice" /\ (Kind(last.S) # "slice" \/ Kind(last.D) # "slice"))
    => /\ ~last.panic
       /\ last.err = ErrSrcAndDestMustBeSlices
       /\ last.res = Zero(last.D)
       /\ last.calls = <<>>

C8_Witness ==
    /\ last.op = "MapSlice"
    /\ Kind(last.S) = "slice"
    /\ Kind(last.D) # "slice"
    /\ Len(last.src.elems) > 0
    /\ lookupKey(Elem(last.S), last.D) \in DOMAIN registry
    /\ last.err = ErrSrcAndDestMustBeSlices

\* C9: after Remove[S, D], for value and pointer types alike, Map[S, D]
\* returns ErrNoMapping until the pair is registered again.
C9_MapAfterRemove ==
    [][(/\ last.op = "Remove"
        /\ last'.op = "Map"
        /\ last'.S = last.S
        /\ last'.D = last.D)
       => last'.err = ErrNoMapping]_vars

\* C10: Has[S, D] is true exactly when the last Register, RegisterAutoMap or
\* Remove that touched the key (S, D) was a registration; Remove[S, D]
\* changes that one entry only, and a pair registered again after its
\* removal is usable again.
C10_HasFollowsLastWrite ==
    /\ \A k \in ArgPairs : Has(registry, k.src, k.dst) <=> lastWrite(k) # "none"
    /\ \A k \in DOMAIN registry : registry[k] = Entry(lastWrite(k), k.src, k.dst)
    /\ last.op = "Has" => (last.ok <=> lastWrite(typePair(last.S, last.D)) # "none")

C10_Witness ==
    /\ last.op = "Remove"
    /\ last.replaced # "none"
    /\ ~Has(registry, last.S, last.D)
    /\ Has(registry, last.D, last.S)

\* C11: List returns one label "source-destination" per registry entry: as
\* many labels as registered keys (none for a fresh registry), the label of
\* every registered key, and no label of a key never registered or removed.
C11_ListLabels ==
    last.op = "List"
    => /\ Len(last.list) = Cardinality({k \in ArgPairs : lastWrite(k) # "none"})
       /\ \A k \in ArgPairs :
             lastWrite(k) # "none" <=> \E i \in DOMAIN last.list : last.list[i] = Label(k)
       /\ (registry = New) => last.list = <<>>

C11_Witness ==
    /\ last.op = "List"
    /\ last.list = <<"*string-*int", "int-string">>
    /\ ~Has(registry, StringType, IntType)
    /\ lastWrite(typePair(StringType, IntType)) = "none"

\* C13: RegisterAutoMap[S, D] leaves an auto-copy entry under (S, D) and
\* under (D, S), whatever either key held before, and every other key as it
\* was; Has[S, D] and Has[D, S] are true afterwards.
C13_AutoMapBothDirections ==
    [][last'.op = "RegisterAutoMap"
       => LET fwd == typePair(last'.S, last'.D)
              rev == typePair(last'.D, last'.S)
          IN  /\ Has(registry', last'.S, last'.D)
              /\ Has(registry', last'.D, last'.S)
              /\ registry'[fwd] = Entry("auto", last'.S, last'.D)
              /\ registry'[rev] = Entry("auto", last'.D, last'.S)
              /\ (DOMAIN registry') \ {fwd, rev} = (DOMAIN registry) \ {fwd, rev}
              /\ \A k \in (DOMAIN registry) \ {fwd, rev} : registry'[k] = registry[k]]_vars

C13_Witness ==
    /\ last.op = "RegisterAutoMap"
    /\ last.replaced \in UserFns
    /\ registry[typePair(last.S, last.D)].id = "auto"
    /\ registry[typePair(last.D, last.S)].id = "auto"
    /\ typePair(PtrStringType, PtrIntType) \in DOMAIN registry

\* C18: Map never panics: for value, pointer and interface types S and D
\* and every src, a nil interface included, it returns D's zero value with
\* ErrNoMapping or a result with no error.
C18_MapNeverPanics ==
    last.op = "Map"
    => /\ ~last.panic
       /\ \/ last.err = ErrNoMapping /\ last.res = Zero(last.D)
          \/ last.err = ErrNil

\* C19: with a function registered for (T, U), Map[[]T, []U] converts the
\* slice element by element and returns it with no error.
C19_MapWithSliceTypes ==
    (/\ last.op = "Map"
     /\ Kind(last.S) = "slice"
     /\ Kind(last.D) = "slice"
     /\ typePair(Elem(last.S), Elem(last.D)) \in DOMAIN registry)
    => /\ last.err = ErrNil
       /\ Len(last.res.elems) = Len(last.src.elems)
       /\ \A i \in DOMAIN last.src.elems :
             last.res.elems[i] = Apply(registry[typePair(Elem(last.S), Elem(last.D))], last.src.elems[i])

\* C20: once MapSlice has found an entry for the element key it fails on no
\* element, whatever the element shapes, elements behind two pointers
\* included: it returns a slice of the source's length with no error and
\* does not panic.
C20_MapSliceTotality ==
    (/\ last.op = "MapSlice"
     /\ Kind(last.S) = "slice"
     /\ Kind(last.D) = "slice"
     /\ lookupKey(Elem(last.S), Elem(last.D)) \in DOMAIN registry)
    => /\ ~last.panic
       /\ last.err = ErrNil
       /\ Len(last.res.elems) = Len(last.src.elems)

\* C12: every List call returns a newly allocated sequence: a write to a
\* returned sequence changes neither the registry (so no later Has, Map or
\* List result) nor any other returned sequence, and a List call leaves
\* the sequences returned before it as they were and returns the labels
\* of the registry, whatever was written to earlier sequences.
C12_ListIndependence ==
    [][/\ last'.op = "Mutate"
          => /\ registry' = registry
             /\ List(registry') = List(registry)
             /\ \E i \in DOMAIN held :
                   \A j \in (DOMAIN held) \ {i} : arrays'[held'[j]] = arrays[held[j]]
       /\ last'.op = "List"
          => /\ registry' = registry
             /\ \A j \in DOMAIN held : arrays'[held'[j]] = arrays[held[j]]
             /\ arrays'[held'[Len(held')]] \in List(registry)]_vars

C12_Witness ==
    /\ last.op = "Mutate"
    /\ Len(held) = 2
    /\ Len(arrays[held[2]]) = 2
    /\ arrays[held[1]][1] # "modified"
    /\ arrays[held[2]][1] = "modified"
    /\ arrays[held[1]] \in List(registry)

\* C15: the Mappers of separate New() calls, Global among them, are
\* independent: a Register, RegisterAutoMap or Remove on one changes no
\* result of Has, Map, MapSlice or List on another.
C15_InstancesIndependent ==
    [][last'.op \in {"Register", "RegisterAutoMap", "Remove"}
       => \A j \in (DOMAIN mappers) \ {last'.inst} :
             LET before == maps[mappers[j]]
                 after  == maps'[mappers'[j]]
             IN  /\ \A p \in ArgPairs : Has(after, p.src, p.dst) = Has(before, p.src, p.dst)
                 /\ List(after) = List(before)
                 /\ \A p \in AutoPairs :
                       \A src \in ValuesOf(p.src) :
                          /\ Map(after, p.src, p.dst, src) = Map(before, p.src, p.dst, src)
                          /\ MapSlice(after, SliceOf(p.src), SliceOf(p.dst), Val(FALSE, 0, 0, <<src>>))
                                = MapSlice(before, SliceOf(p.src), SliceOf(p.dst), Val(FALSE, 0, 0, <<src>>))]_vars

C15_Witness ==
    /\ Len(mappers) = 2
    /\ last.op = "Register"
    /\ last.inst = 2
    /\ Has(maps[mappers[2]], StringType, IntType)
    /\ ~Has(maps[mappers[1]], StringType, IntType)
    /\ Has(maps[mappers[1]], IntType, StringType)

\* C16: the registry is thread-safe: no interleaving of goroutines calling
\* Register, RegisterAutoMap, Remove, Map, MapSlice, Has and List on one
\* Mapper has two of them inside the registry map at once with one of them
\* writing it.
C16_ThreadSafe ==
    \A g, h \in Procs :
        (g # h /\ procs[g].pc = "access" /\ procs[h].pc = "access")
        => access(procs[g].call) = "read" /\ access(procs[h].call) = "read"

\* C17: Map, MapSlice, Has and List never write the registry: a goroutine
\* that ends one of them leaves the registry as it was, readers alone never
\* race, and a reader no writer overlapped returns what the call returns
\* when run alone on the registry it started from.
C17_ReadsDoNotWrite ==
    [][\A g \in Procs :
          /\ (procs[g].pc = "access" /\ procs'[g].pc = "idle" /\ procs[g].call.op \in {"Map", "MapSlice", "Has", "List"})
             => /\ registry' = registry
                /\ ~procs[g].raced => last' \in procs[g].expect
          /\ (\A h \in Procs : procs'[h].pc = "access" => procs'[h].call.op \in {"Map", "MapSlice", "Has", "List"})
             => (procs'[g].raced => procs[g].raced)]_vars

C17_Witness ==
    /\ last.op = "Map"
    /\ last.err = ErrNil
    /\ last.res.v = 2
    /\ procs[1].pc = "idle"
    /\ procs[2].pc = "access"
    /\ procs[2].call.op = "List"
    /\ ~procs[2].raced
    /\ ~fatal

\* C14: for structurally identical struct types S and D registered with
\* RegisterAutoMap[S, D], Map[D, S] of Map[S, D] of s is s, for every s; a
\* destination field with no source field of its name is left at zero, the
\* others take the source's value.
C14_AutoMapRoundTrip ==
    (/\ last.op = "MapThereAndBack"
     /\ lastWrite(typePair(last.S, last.D)) = "auto"
     /\ lastWrite(typePair(last.D, last.S)) = "auto")
    => /\ ~last.panic
       /\ last.err = ErrNil
       /\ Fields(last.S) = Fields(last.D) => last.res = last.src
       /\ \A i \in DOMAIN Fields(last.D) :
             IF \E j \in DOMAIN Fields(last.S) : Fields(last.S)[j] = Fields(last.D)[i]
             THEN \E j \in DOMAIN Fields(last.S) :
                     Fields(last.S)[j] = Fields(last.D)[i] /\ last.mid.elems[i] = last.src.elems[j]
             ELSE last.mid.elems[i] = 0

C14_Witness ==
    /\ last.op = "MapThereAndBack"
    /\ last.S = StructType("Foo")
    /\ last.D = StructType("Bar")
    /\ last.src.elems = <<1, 0>>
    /\ last.mid.elems = <<1, 0>>
    /\ last.res = last.src
    /\ last.err = ErrNil

\* C21: a Map call that succeeds on a non-nil source invokes the stored
\* function exactly once; a MapSlice call that succeeds invokes it once for
\* each non-nil element, so never more often than the source has elements,
\* whatever the shapes of the element types.
C21_InvocationCount ==
    /\ (/\ last.op = "Map"
        /\ last.err = ErrNil
        /\ ~last.panic
        /\ ~IsNil(last.src))
       => Len(last.calls) = 1
    /\ (/\ last.op = "MapSlice"
        /\ last.err = ErrNil
        /\ ~last.panic)
       => /\ Len(last.calls) = Len(SelectSeq(last.src.elems, NonNil))
          /\ Len(last.calls) <= Len(last.src.elems)

\* C22: Map looks the key up before it looks at the source: Map[*T, D] of a
\* nil pointer with no entry for the key returns D's zero value and
\* ErrNoMapping, and a nil source is answered with a nil error only when
\* the key has an entry.
C22_LookupBeforeNilCheck ==
    (/\ last.op = "Map"
     /\ Kind(last.S) = "ptr"
     /\ IsNil(last.src))
    => /\ ~last.panic
       /\ last.calls = <<>>
       /\ last.res = Zero(last.D)
       /\ lastWrite(lookupKey(last.S, last.D)) = "none" => last.err = ErrNoMapping
       /\ last.err = ErrNil => lookupKey(last.S, last.D) \in DOMAIN registry

C22_Witness ==
    /\ last.op = "Map"
    /\ last.S = PtrStringType
    /\ last.D = IntType
    /\ IsNil(last.src)
    /\ typePair(IntType, StringType) \in DOMAIN registry
    /\ typePair(StringType, IntType) \notin DOMAIN registry
    /\ last.err = ErrNoMapping

\* C23: Map and MapSlice look up the fully dereferenced types, whatever the
\* number of pointer layers: Map[**T, U], Map[*T, U] and Map[T, U] all find
\* the entry of (T, U), so a call fails with ErrNoMapping exactly when the
\* pair of the types under all pointers has no entry.
C23_FullyDereferencedKey ==
    /\ (/\ last.op = "Map"
        /\ last.S.kind = "val"
        /\ last.D.kind = "val"
        /\ ~last.panic)
       => (last.err = ErrNoMapping <=> typePair(Base(last.S), Base(last.D)) \notin DOMAIN registry)
    /\ (/\ last.op = "MapSlice"
        /\ Kind(last.S) = "slice"
        /\ Kind(last.D) = "slice"
        /\ ~last.panic)
       => (last.err = ErrNoMapping <=> typePair(Base(last.S), Base(last.D)) \notin DOMAIN registry)

\* C25: with a function registered for value types (T, U), MapSlice from
\* []T or []*T to []U or []*U succeeds on every source slice, and its
\* element i is what Map with the element types returns for source element
\* i, nil elements included.
C25_SliceAgreesWithScalar ==
    (/\ last.op = "MapSlice"
     /\ Kind(last.S) = "slice"
     /\ Kind(last.D) = "slice"
     /\ last.S.ptr <= 1
     /\ last.D.ptr <= 1
     /\ lastWrite(typePair(Base(last.S), Base(last.D))) # "none")
    => /\ ~last.panic
       /\ last.err = ErrNil
       /\ Len(last.res.elems) = Len(last.src.elems)
       /\ \A i \in DOMAIN last.src.elems :
             LET scalar == Map(registry, Elem(last.S), Elem(last.D), last.src.elems[i])
             IN  /\ ~scalar.panic
                 /\ scalar.err = ErrNil
                 /\ last.res.elems[i] = scalar.val

C25_Witness ==
    /\ last.op = "MapSlice"
    /\ last.S = SliceOf(PtrStringType)
    /\ last.D = SliceOf(PtrIntType)
    /\ lastWrite(typePair(StringType, IntType)) = "g"
    /\ Len(last.src.elems) = 2
    /\ IsNil(last.src.elems[1])
    /\ last.src.elems[2] = Val(FALSE, 1, 1, <<>>)
    /\ last.res.elems = <<Val(TRUE, 0, 0, <<>>), Val(FALSE, 1, 3, <<>>)>>
    /\ last.err = ErrNil

\* C26: Has and Map agree: in every state of the registry and for value and
\* pointer types S and D, Has[S, D] is true exactly when Map[S, D] does not
\* return ErrNoMapping.
C26_HasAgreesWithMap ==
    (/\ last.op = "Map"
     /\ last.S.kind = "val"
     /\ last.D.kind = "val")
    => (Has(registry, last.S, last.D) <=> last.err # ErrNoMapping)

\* C27: MapUnsafe[S, D] returns what Map[S, D] returns, value and error, in
\* every state of the registry, for value and pointer types S and D and
\* every source.
C27_MapUnsafeAgreesWithMap ==
    last.op = "MapUnsafe"
    => LET safe == Map(registry, last.S, last.D, last.src)
       IN  /\ last.panic = safe.panic
           /\ last.err = safe.err
           /\ last.res = safe.val

\* C28: MapSliceUnsafe[S, D] returns what MapSlice[S, D] returns, elements
\* and error, in every state of the registry, for slices of values and of
\* pointers and every source slice.
C28_MapSliceUnsafeAgreesWithMapSlice ==
    last.op = "MapSliceUnsafe"
    => LET safe == MapSlice(registry, last.S, last.D, last.src)
       IN  /\ last.panic = safe.panic
           /\ last.err = safe.err
           /\ last.res.elems = safe.val.elems

\* C29: whether MapSliceUnsafe[S, D] returns ErrNoMapping is decided by the
\* registry and the types: the call on any source returns ErrNoMapping
\* exactly when the call on the empty source does.
C29_NoMappingIgnoresSource ==
    last.op = "MapSliceUnsafe"
    => (last.err = ErrNoMapping
          <=> MapSliceUnsafe(registry, last.S, last.D, Val(FALSE, 0, 0, <<>>)).err = ErrNoMapping)

====
